---- MODULE Spec2Model ----
(***************************************************************************)
(* Model of DataMining.py, a Streamlit dashboard over a survey CSV.        *)
(*                                                                         *)
(*   Spec       sessions, the cached path-based load and the append form   *)
(*   LiveSpec   Spec under fair scheduling of time, reruns and writes      *)
(*   SpecView   one session's script runs: filters, KPIs, chart sections    *)
(*   SpecKw     extract_keywords over a text column                        *)
(***************************************************************************)
EXTENDS Integers, Sequences, FiniteSets, TLC

VARIABLES
    file,       \* the persisted CSV at csv_path: a table, or NoFile
    cache,      \* the st.cache_data entry of _read_csv(csv_path), or NoEntry
    pc,         \* per session: "off", "idle", "stopped" (st.stop) or "writing"
    up,         \* per session: the uploaded table, or NoUpload
    sdf,        \* per session: df of the session's last script run, or NoTable
    base,       \* per session: base of the append handler (the file as read)
    new_row,    \* per session: new_row of the append handler
    msg,        \* per session: "none", "success" (st.success) or "error" (st.error)
    nApp,       \* per session: number of clicks on "Ajouter" so far
    series,     \* the column handed to extract_keywords
    freq,       \* the Counter extract_keywords returned for series
    df,         \* the Dataset of the session whose script runs SpecView follows
    WORDCLOUD_OK,   \* whether the wordcloud module could be imported
    widgets,    \* the sidebar widgets' values: f_age, f_sexe, ..., f_linkedin
    out         \* what the last script run computed: dff, the KPIs, the sections

sessVars == <<file, cache, pc, up, sdf, base, new_row, msg, nApp>>
kwVars == <<series, freq>>
viewVars == <<df, WORDCLOUD_OK, widgets, out>>
notSess == <<kwVars, viewVars>>
notKw == <<sessVars, viewVars>>
notView == <<sessVars, kwVars>>
vars == <<sessVars, kwVars, viewVars>>

-----------------------------------------------------------------------------
(* Bounds *)

MaxAppends == 2     \* clicks on "Ajouter", all sessions together
Step == 30          \* seconds added by one Tick

MaxRows == 2        \* rows of the Dataset
MaxN == 2           \* the n of topN, besides the script's 10
MaxSeries == 2      \* cells of the column given to extract_keywords
MaxTextLen == 4     \* characters of one cell
MaxChars == 6       \* characters of the whole column

Sessions == {1, 2}  \* two browser sessions of one server process

-----------------------------------------------------------------------------
(* Text: a str is a sequence of one-character strings; NA is a missing cell *)
(* (read_csv reads an empty cell as NaN).                                    *)

NA == <<>>

Uppers ==
    <<"A","B","C","D","E","F","G","H","I","J","K","L","M",
      "N","O","P","Q","R","S","T","U","V","W","X","Y","Z","À","Ê","È","É","Ù">>
Lowers ==
    <<"a","b","c","d","e","f","g","h","i","j","k","l","m",
      "n","o","p","q","r","s","t","u","v","w","x","y","z","à","ê","è","é","ù">>
Digits == {"0","1","2","3","4","5","6","7","8","9"}

Range(q) == {q[i] : i \in DOMAIN q}

LowerOf == [c \in Range(Uppers) |-> Lowers[CHOOSE i \in DOMAIN Uppers : Uppers[i] = c]]

\* str.lower(), one character
LowerChar(c) == IF c \in DOMAIN LowerOf THEN LowerOf[c] ELSE c

lower(t) == [i \in DOMAIN t |-> LowerChar(t[i])]

\* the regex classes \w (letters, digits and the underscore) and \s
WordChars == Range(Uppers) \cup Range(Lowers) \cup Digits \cup {"_"}
SpaceChars == {" ", "\t", "\n"}
IsWordChar(c) == c \in WordChars
IsSpaceChar(c) == c \in SpaceChars

\* re.sub(r"[^\w\s]", " ", .), one character
ReSubChar(c) == IF IsWordChar(c) \/ IsSpaceChar(c) THEN c ELSE " "

\* .replace("’", " ").replace("'", " "), one character ("rsquo" stands for ’)
ReplaceQuoteChar(c) == IF c \in {"rsquo", "'"} THEN " " ELSE c

\* lines 278-279
Normalise(t) == [i \in DOMAIN t |-> ReplaceQuoteChar(ReSubChar(LowerChar(t[i])))]

\* str.split(): the maximal runs of non-whitespace characters, in order
RECURSIVE SplitFrom(_, _, _)
SplitFrom(t, i, cur) ==
    IF i > Len(t) THEN (IF cur = <<>> THEN <<>> ELSE <<cur>>)
    ELSE IF IsSpaceChar(t[i])
         THEN (IF cur = <<>> THEN <<>> ELSE <<cur>>) \o SplitFrom(t, i + 1, <<>>)
         ELSE SplitFrom(t, i + 1, Append(cur, t[i]))

split(t) == SplitFrom(t, 1, <<>>)

\* lines 270-275
stop_words ==
    {
      <<"l","e">>, <<"d","e">>, <<"u","n">>, <<"u","n","e">>, <<"e","t">>,
      <<"e","n">>, <<"à">>, <<"d","a","n","s">>, <<"s","u","r">>, <<"a","u">>,
      <<"a","u","x">>, <<"d","u">>, <<"d","e","s">>, <<"l","a">>,
      <<"l","e","s">>, <<"j","e">>, <<"t","u">>, <<"i","l">>,
      <<"e","l","l","e">>, <<"n","o","u","s">>, <<"v","o","u","s">>,
      <<"i","l","s">>, <<"e","l","l","e","s">>, <<"e","s","t">>,
      <<"s","o","n","t">>, <<"ê","t","r","e">>, <<"a","v","o","i","r">>,
      <<"p","o","u","r">>, <<"c","e">>, <<"c","e","t">>,
      <<"c","e","t","t","e">>, <<"c","e","s">>, <<"q","u","i">>,
      <<"q","u","o","i">>, <<"d","o","n","t">>, <<"o","ù">>,
      <<"c","o","m","m","e","n","t">>, <<"p","o","u","r","q","u","o","i">>,
      <<"q","u","a","n","d">>, <<"a","v","e","c">>, <<"p","a","r">>,
      <<"p","l","u","s">>, <<"m","o","i","n","s">>, <<"t","r","è","s">>,
      <<"t","r","e","s">>, <<"b","i","e","n">>, <<"m","a","l">>, <<"n","e">>,
      <<"p","a","s">>, <<"s","e">>, <<"s","o","n">>, <<"s","a">>,
      <<"s","e","s">>
    }
\* Counter: a function from the tokens counted to their counts
EmptyCounter == [w \in {} |-> 0]

Incr(counter, w) ==
    IF w \in DOMAIN counter THEN [counter EXCEPT ![w] = @ + 1]
    ELSE [x \in DOMAIN counter \cup {w} |-> IF x = w THEN 1 ELSE counter[x]]

\* lines 280-282 for the words ws[i..] of one text
RECURSIVE CountWords(_, _, _, _)
CountWords(counter, ws, i, min_length) ==
    IF i > Len(ws) THEN counter
    ELSE CountWords(
            IF Len(ws[i]) >= min_length /\ ws[i] \notin stop_words
            THEN Incr(counter, ws[i]) ELSE counter,
            ws, i + 1, min_length)

dropna(col) == SelectSeq(col, LAMBDA v : v # NA)

\* lines 276-283 for the texts ts[i..]
RECURSIVE CountTexts(_, _, _, _)
CountTexts(counter, ts, i, min_length) ==
    IF i > Len(ts) THEN counter
    ELSE CountTexts(CountWords(counter, split(Normalise(ts[i])), 1, min_length),
                    ts, i + 1, min_length)

extract_keywords(col, min_length) == CountTexts(EmptyCounter, dropna(col), 1, min_length)

MinLength == 3      \* the default of min_length, the only value the script passes

-----------------------------------------------------------------------------
(* The Dataset of the view model: the columns the filters, the KPIs and the *)
(* chart sections read. Text cells are texts or NA, numeric cells are        *)
(* numbers or NaN.                                                           *)

NaN == 0 - 1

Oui == <<"O","u","i">>
Non == <<"N","o","n">>
Masc == <<"M">>
Fem == <<"F">>
BSc == <<"B","S","c">>
IT == <<"I","T">>
Droit == <<"D","r","o","i","t">>
Exp == <<"E","x","p">>

RowPool ==
    { [Age |-> 22, Sexe |-> Masc, Diplome |-> BSc, Q1_Domaine |-> IT,
       Q2_Stage |-> Oui, Q3_Difficulte |-> Exp, Q6_Salaire_ZAR |-> 10,
       Q7_Mobilite |-> Oui, Q9_Entreprenariat |-> Oui, Q10_LinkedIn |-> Oui],
      [Age |-> 23, Sexe |-> Fem, Diplome |-> BSc, Q1_Domaine |-> Droit,
       Q2_Stage |-> Non, Q3_Difficulte |-> Exp, Q6_Salaire_ZAR |-> 20,
       Q7_Mobilite |-> Oui, Q9_Entreprenariat |-> Non, Q10_LinkedIn |-> Oui],
      [Age |-> 23, Sexe |-> Masc, Diplome |-> NA, Q1_Domaine |-> NA,
       Q2_Stage |-> NA, Q3_Difficulte |-> NA, Q6_Salaire_ZAR |-> NaN,
       Q7_Mobilite |-> NA, Q9_Entreprenariat |-> NA, Q10_LinkedIn |-> NA],
      [Age |-> NaN, Sexe |-> NA, Diplome |-> BSc, Q1_Domaine |-> Droit,
       Q2_Stage |-> Oui, Q3_Difficulte |-> NA, Q6_Salaire_ZAR |-> 10,
       Q7_Mobilite |-> NA, Q9_Entreprenariat |-> Oui, Q10_LinkedIn |-> Oui] }

Datasets == UNION {[1..n -> RowPool] : n \in 1..MaxRows}

Column(t, c) == [i \in DOMAIN t |-> t[i][c]]

dropnan(col) == SelectSeq(col, LAMBDA v : v # NaN)

\* sorted(df[c].dropna().unique().tolist()): the options of a multiselect
Options(d, c) == Range(dropna(Column(d, c)))

\* Series.max() and Series.min() of a column without NaN
RECURSIVE SeqMax(_)
SeqMax(q) ==
    IF Len(q) = 1 THEN q[1]
    ELSE LET m == SeqMax(Tail(q)) IN IF q[1] > m THEN q[1] ELSE m

RECURSIVE SeqMin(_)
SeqMin(q) ==
    IF Len(q) = 1 THEN q[1]
    ELSE LET m == SeqMin(Tail(q)) IN IF q[1] < m THEN q[1] ELSE m

\* line 152; int() of the NaN an all-missing column gives raises
AgeRaises(d) == dropnan(Column(d, "Age")) = <<>>
age_min(d) == SeqMin(dropnan(Column(d, "Age")))
age_max(d) == SeqMax(dropnan(Column(d, "Age")))

\* a range test that leaves the upper end out (pandas' inclusive="left")
betweenExclusive(v, lo, hi) == v # NaN /\ lo <= v /\ v < hi

\* Series.between(lo, hi): inclusive on both ends, False on NaN
between(v, lo, hi) == v # NaN /\ lo <= v /\ v <= hi

\* Series.isin(allowed)
isin(v, allowed) == v \in allowed

\* a filter step without the "if f_xxx" test: an empty set lets no row pass
MaskAndAlways(mask, f, v) == mask /\ isin(v, f)

\* lines 163-168, one of them: if f: mask &= df[col].isin(f)
MaskAnd(mask, f, v) == IF f # {} THEN mask /\ isin(v, f) ELSE mask

\* lines 162-168 for the row r under the widget values w
Mask(r, w) ==
    MaskAnd(MaskAnd(MaskAnd(MaskAnd(MaskAnd(MaskAnd(
        between(r.Age, w.f_age[1], w.f_age[2]),
        w.f_sexe, r.Sexe),
        w.f_diplome, r.Diplome),
        w.f_domaine, r.Q1_Domaine),
        w.f_stage, r.Q2_Stage),
        w.f_mobilite, r.Q7_Mobilite),
        w.f_linkedin, r.Q10_LinkedIn)

\* line 169
Dff(d, w) == SelectSeq(d, LAMBDA r : Mask(r, w))

\* A number the script computes: num/den, Zero for the int 0, NaNStat for NaN
Frac(n, d) == [num |-> n, den |-> d]
Zero == Frac(0, 1)
NaNStat == Frac(0, 0)

RECURSIVE SeqSum(_)
SeqSum(q) == IF q = <<>> THEN 0 ELSE q[1] + SeqSum(Tail(q))

\* Series.mean() of a numeric column: NaN cells are skipped
mean(col) ==
    LET p == dropnan(col) IN IF p = <<>> THEN NaNStat ELSE Frac(SeqSum(p), Len(p))

\* Series.eq(target).mean() * 100: every row counts, a NaN cell is not equal
EqRate(col, target) ==
    Frac(100 * Len(SelectSeq(col, LAMBDA v : v = target)), Len(col))

\* lines 183-187, one rate
Rate(v, c) == IF Len(v) # 0 THEN EqRate(Column(v, c), Oui) ELSE Zero

\* the distinct values of col in order of first occurrence
RECURSIVE FirstSeen(_, _)
FirstSeen(col, seen) ==
    IF col = <<>> THEN <<>>
    ELSE IF col[1] \in seen THEN FirstSeen(Tail(col), seen)
         ELSE <<col[1]>> \o FirstSeen(Tail(col), seen \cup {col[1]})

Count(col, v) == Len(SelectSeq(col, LAMBDA x : x = v))

\* a stable sort of value/count pairs by descending count
RECURSIVE InsertDesc(_, _)
InsertDesc(sorted, e) ==
    IF sorted = <<>> THEN <<e>>
    ELSE IF sorted[1].count >= e.count THEN <<sorted[1]>> \o InsertDesc(Tail(sorted), e)
         ELSE <<e>> \o sorted

RECURSIVE SortDesc(_)
SortDesc(q) ==
    IF q = <<>> THEN <<>>
    ELSE InsertDesc(SortDesc(SubSeq(q, 1, Len(q) - 1)), q[Len(q)])

\* value_counts(dropna=False): missing cells counted as a value of their own
value_counts_keepna(col) ==
    LET vs == FirstSeen(col, {})
    IN SortDesc([i \in DOMAIN vs |-> [value |-> vs[i], count |-> Count(col, vs[i])]])

\* Series.value_counts(): NaN dropped, descending count, ties as first seen
value_counts(col) ==
    LET p == dropna(col)
        vs == FirstSeen(p, {})
    IN SortDesc([i \in DOMAIN vs |-> [value |-> vs[i], count |-> Count(p, vs[i])]])

\* .head(n)
head(q, n) == SubSeq(q, 1, IF n < Len(q) THEN n ELSE Len(q))

TopN == 10          \* line 236: .head(10)

\* topN of the Aggregator: line 236 with its n
topN(v, c, n) == head(value_counts(Column(v, c)), n)

TextCols ==
    <<"Sexe", "Diplome", "Q1_Domaine", "Q2_Stage", "Q3_Difficulte",
      "Q7_Mobilite", "Q9_Entreprenariat", "Q10_LinkedIn">>

\* line 264: the columns of dtype object, those holding some text
candidates(d) == SelectSeq(TextCols, LAMBDA c : \E i \in DOMAIN d : d[i][c] # NA)

\* lines 266-267 with the selectbox left at its default, cands not empty
wc_col(cands) ==
    IF \E i \in DOMAIN cands : cands[i] = "Q1_Domaine"
    THEN "Q1_Domaine" ELSE cands[1]

\* lines 264-303: what the word cloud section shows
WordCloudSection(d, v, ok) ==
    LET cands == candidates(d)
    IN IF cands # <<>>
       THEN IF ok /\ v # <<>>
            THEN IF extract_keywords(Column(v, wc_col(cands)), MinLength) # EmptyCounter
                 THEN "chart" ELSE "too_little_text"
            ELSE IF ~ok THEN "not_installed" ELSE "nothing"
       ELSE "no_text_column"

IfData(hasData) == IF hasData THEN "chart" ELSE "no_data"

\* pd.crosstab(a, b).empty: no row has both cells
CrosstabEmpty(v, a, b) == \A i \in DOMAIN v : v[i][a] = NA \/ v[i][b] = NA

\* lines 199-373: what each chart section shows for the view v
Tabs(d, v, ok) ==
    [ diplome_pie |-> IfData(value_counts(Column(v, "Diplome")) # <<>>),
      sexe_bar |-> IfData(value_counts(Column(v, "Sexe")) # <<>>),
      top10_domaines |-> IfData(topN(v, "Q1_Domaine", TopN) # <<>>),
      salaire_hist |-> IfData(v # <<>>),
      candidatures_box |-> IfData(v # <<>>),
      wordcloud |-> WordCloudSection(d, v, ok),
      informatique_bar |-> IfData(v # <<>>),
      formation_hist |-> IfData(v # <<>>),
      linkedin_pie |-> IfData(v # <<>>),
      mobilite_pie |-> IfData(v # <<>>),
      mobilite_diplome |-> IfData(v # <<>>),
      difficulte_heatmap |-> IfData(~CrosstabEmpty(v, "Q3_Difficulte", "Diplome")) ]

\* lines 182-187
Kpis(v) ==
    [ nb_rep |-> Len(v),
      avg_salary |-> IF Len(v) # 0 THEN mean(Column(v, "Q6_Salaire_ZAR")) ELSE Zero,
      stage_rate |-> Rate(v, "Q2_Stage"),
      mob_rate |-> Rate(v, "Q7_Mobilite"),
      entre_rate |-> Rate(v, "Q9_Entreprenariat"),
      li_rate |-> Rate(v, "Q10_LinkedIn") ]

\* one script run from line 152 to the export of line 379
Script(d, w, ok) ==
    LET v == Dff(d, w)
    IN [ status |-> "exported",
         dff |-> v,
         kpi |-> Kpis(v),
         vc |-> value_counts(Column(v, "Diplome")),
         vsex |-> value_counts(Column(v, "Sexe")),
         dom |-> topN(v, "Q1_Domaine", TopN),
         tabs |-> Tabs(d, v, ok) ]

\* the run that line 152 ends
Raised ==
    [ status |-> "raised", dff |-> <<>>, kpi |-> Kpis(<<>>), vc |-> <<>>,
      vsex |-> <<>>, dom |-> <<>>, tabs |-> Tabs(<<>>, <<>>, FALSE) ]

NoWidgets ==
    [ f_age |-> <<0, 0>>, f_sexe |-> {}, f_diplome |-> {}, f_domaine |-> {},
      f_stage |-> {}, f_mobilite |-> {}, f_linkedin |-> {} ]

\* lines 153-159 on the first run: the slider spans the ages, no value is selected
DefaultWidgets(d) == [NoWidgets EXCEPT !.f_age = <<age_min(d), age_max(d)>>]

-----------------------------------------------------------------------------
(* Tables of the session model: a row keeps its ID and the Age typed in the form *)

Row(i, a) == [ID |-> i, Age |-> a]

NoTable == <<>>                                  \* no df: the script stopped
NoRow == Row(0, 0)
NoFile == [exists |-> FALSE, rows |-> <<>>]      \* os.path.isfile(csv_path) is False
NoEntry == [has |-> FALSE, content |-> <<>>, age |-> 0]
NoUpload == [has |-> FALSE, rows |-> <<>>]

File(t) == [exists |-> TRUE, rows |-> t]

InitFiles ==
    { File(<<Row(1, 22)>>),
      File(<<Row(1, 22), Row(3, 25)>>),
      File(<<Row(2, 25), Row(1, 22)>>) }

UploadTables == { <<Row(5, 30)>> }

\* st.number_input("Age", 18, 60, 23): what each session types
FormAges(s) == {22 + s}

IDs(t) == [i \in 1..Len(t) |-> t[i].ID]

TTL == 60

\* a cache that also drops the entry when the file has changed (not st.cache_data)
CacheValidByContent(c) == c.has /\ c.age < TTL /\ c.content = file.rows

\* @st.cache_data(ttl=60): an entry younger than ttl is served without reading
CacheValid(c) == c.has /\ c.age < TTL

\* _read_csv(csv_path) through the cache c, the file being f
_read_csv(f, c) == IF CacheValid(c) THEN c.content ELSE f.rows

\* the cache entry _read_csv leaves
CacheAfterRead(f, c) ==
    IF CacheValid(c) THEN c ELSE [has |-> TRUE, content |-> f.rows, age |-> 0]

\* _safe_read: st.stop() when the file is missing
_safe_read(f, c) == IF ~f.exists THEN NoTable ELSE _read_csv(f, c)

\* lines 142-146 of one script run: df, the cache it leaves, where the run ends
LoadDf(u, f, c) == IF u.has THEN u.rows ELSE _safe_read(f, c)

LoadCache(u, f, c) == IF u.has \/ ~f.exists THEN c ELSE CacheAfterRead(f, c)

LoadPc(u, f) == IF ~u.has /\ ~f.exists THEN "stopped" ELSE "idle"

\* line 388
_id(d) == SeqMax(IDs(d)) + 1

-----------------------------------------------------------------------------
SessInit ==
    /\ file \in InitFiles \cup {NoFile}
    /\ cache = NoEntry
    /\ pc = [s \in Sessions |-> "off"]
    /\ up = [s \in Sessions |-> NoUpload]
    /\ sdf = [s \in Sessions |-> NoTable]
    /\ base = [s \in Sessions |-> NoTable]
    /\ new_row = [s \in Sessions |-> NoRow]
    /\ msg = [s \in Sessions |-> "none"]
    /\ nApp = [s \in Sessions |-> 0]

\* one run of the script for session s with upload widget value u
Run(s, u) ==
    /\ up' = [up EXCEPT ![s] = u]
    /\ sdf' = [sdf EXCEPT ![s] = LoadDf(u, file, cache)]
    /\ cache' = LoadCache(u, file, cache)
    /\ pc' = [pc EXCEPT ![s] = LoadPc(u, file)]
    /\ msg' = [msg EXCEPT ![s] = "none"]
    /\ UNCHANGED <<file, base, new_row, nApp, notSess>>

\* a browser opens the page
Connect(s) ==
    /\ pc[s] = "off"
    /\ Run(s, NoUpload)

\* any widget interaction or periodic refresh reruns the script
Rerun(s) ==
    /\ pc[s] \in {"idle", "stopped"}
    /\ Run(s, up[s])

Upload(s) ==
    /\ pc[s] \in {"idle", "stopped"}
    /\ ~up[s].has
    /\ \E t \in UploadTables : Run(s, [has |-> TRUE, rows |-> t])

RemoveUpload(s) ==
    /\ pc[s] = "idle"
    /\ up[s].has
    /\ Run(s, NoUpload)

\* time passes: the cache entry ages
Tick ==
    /\ cache.has
    /\ cache.age < TTL
    /\ cache' = [cache EXCEPT !.age = IF @ + Step > TTL THEN TTL ELSE @ + Step]
    /\ UNCHANGED <<file, pc, up, sdf, base, new_row, msg, nApp, notSess>>

TotalApp == nApp[1] + nApp[2]

\* A click on "Ajouter": the script reruns from the top (lines 142-146 load df,
\* line 388 computes _id from it), builds new_row (411-417) and reads the file
\* (419). The write (421) is a later step: another session may run in between.
AppendRead(s) ==
    /\ pc[s] = "idle"
    /\ TotalApp < MaxAppends
    /\ \E age \in FormAges(s) :
        LET d == LoadDf(up[s], file, cache) IN
        /\ sdf' = [sdf EXCEPT ![s] = d]
        /\ cache' = LoadCache(up[s], file, cache)
        /\ new_row' = [new_row EXCEPT ![s] = Row(_id(d), age)]
        /\ base' = [base EXCEPT ![s] = IF file.exists THEN file.rows ELSE d]
    /\ pc' = [pc EXCEPT ![s] = "writing"]
    /\ msg' = [msg EXCEPT ![s] = "none"]
    /\ nApp' = [nApp EXCEPT ![s] = @ + 1]
    /\ UNCHANGED <<file, up, notSess>>

\* line 420: pd.concat([base, pd.DataFrame([new_row])], ignore_index=True)
Concat(b, r) == Append(b, r)

\* what a write under a file lock would leave (the program takes no lock)
ToCsvLocked(s) == File(Concat(file.rows, new_row[s]))

\* lines 420-421: what to_csv writes at csv_path
ToCsv(s) == File(Concat(base[s], new_row[s]))

\* lines 420-423: concat, to_csv, st.success, st.rerun (the script runs again)
AppendWrite(s) ==
    /\ pc[s] = "writing"
    /\ file' = ToCsv(s)
    /\ sdf' = [sdf EXCEPT ![s] = LoadDf(up[s], file', cache)]
    /\ cache' = LoadCache(up[s], file', cache)
    /\ pc' = [pc EXCEPT ![s] = "idle"]
    /\ msg' = [msg EXCEPT ![s] = "success"]
    /\ UNCHANGED <<up, base, new_row, nApp, notSess>>

\* lines 424-425: read_csv or to_csv raised; st.error, no rerun, file untouched
AppendFail(s) ==
    /\ pc[s] = "writing"
    /\ pc' = [pc EXCEPT ![s] = "idle"]
    /\ msg' = [msg EXCEPT ![s] = "error"]
    /\ UNCHANGED <<file, cache, up, sdf, base, new_row, nApp, notSess>>

Next ==
    \/ \E s \in Sessions : Connect(s)
    \/ \E s \in Sessions : Rerun(s)
    \/ \E s \in Sessions : Upload(s)
    \/ \E s \in Sessions : RemoveUpload(s)
    \/ \E s \in Sessions : AppendRead(s)
    \/ \E s \in Sessions : AppendWrite(s)
    \/ \E s \in Sessions : AppendFail(s)
    \/ Tick

KwIdle == series = <<>> /\ freq = EmptyCounter

SessIdle ==
    /\ file = NoFile
    /\ cache = NoEntry
    /\ pc = [s \in Sessions |-> "off"]
    /\ up = [s \in Sessions |-> NoUpload]
    /\ sdf = [s \in Sessions |-> NoTable]
    /\ base = [s \in Sessions |-> NoTable]
    /\ new_row = [s \in Sessions |-> NoRow]
    /\ msg = [s \in Sessions |-> "none"]
    /\ nApp = [s \in Sessions |-> 0]

ViewIdle ==
    /\ df = <<>>
    /\ WORDCLOUD_OK = FALSE
    /\ widgets = NoWidgets
    /\ out = Raised

Init == SessInit /\ KwIdle /\ ViewIdle

Spec == Init /\ [][Next]_vars

\* Spec with the scheduling the program relies on: time passes (Tick), a page
\* that is open is run again (st.rerun() after a write, any later interaction),
\* and a handler that has read the file goes on to its write.
LiveSpec ==
    /\ Init /\ [][Next]_vars
    /\ WF_vars(Tick)
    /\ \A s \in Sessions : WF_vars(Rerun(s)) /\ WF_vars(AppendWrite(s))

-----------------------------------------------------------------------------
(* Claims checked under Spec *)

Distinct(q) == \A i, j \in 1..Len(q) : i # j => q[i] # q[j]

\* C3 (as claimed): whenever an append succeeds against a persisted source whose
\* maximum ID at that moment is k (and which is still the source the handler
\* read), the source gains exactly one row, that row is last and carries ID
\* k+1, and the rows persisted before are unchanged and in the same order.
C3_AppendGivesNextId ==
    [][\A s \in Sessions :
         (pc[s] = "writing" /\ msg'[s] = "success"
            /\ file.exists /\ file.rows = base[s])
         => /\ Len(file'.rows) = Len(file.rows) + 1
            /\ SubSeq(file'.rows, 1, Len(file.rows)) = file.rows
            /\ file'.rows[Len(file'.rows)].ID = SeqMax(IDs(file.rows)) + 1]_vars

\* C4 (as claimed): with one session only, loading by path, the IDs of the
\* persisted source stay pairwise distinct.
C4_IdsStayUnique ==
    (pc[2] = "off" /\ ~up[1].has /\ file.exists) => Distinct(IDs(file.rows))

\* the script run of session s in this step loads df by path from file f
PathLoadOf(s, f) ==
    IF cache.has /\ cache.age < TTL
    THEN sdf'[s] = cache.content /\ cache' = cache
    ELSE sdf'[s] = f.rows
         /\ cache' = [has |-> TRUE, content |-> f.rows, age |-> 0]

\* a path-based load made while the cache entry is younger than TTL returns the
\* entry's table and leaves the entry alone, whatever the file holds now (also
\* the load of the rerun that follows the session's own successful append); a
\* load made with no entry or an expired one returns the file's current rows
\* and starts a new entry with them.
CachedLoadsReturnEntry ==
    [][\A s \in Sessions :
         /\ ((Connect(s) \/ Rerun(s) \/ RemoveUpload(s) \/ AppendRead(s))
                /\ ~up'[s].has /\ file.exists)
            => PathLoadOf(s, file)
         /\ (AppendWrite(s) /\ ~up[s].has) => PathLoadOf(s, file')]_vars

\* a row a session appended with success, loading by path, is eventually in
\* that session's df, unless the session turns to an uploaded table or the row
\* leaves the file (another session's write replaced it).
AppendedRowAppears ==
    \A s \in Sessions :
        (msg[s] = "success" /\ ~up[s].has)
          ~> (\/ up[s].has
              \/ new_row[s] \in Range(sdf[s])
              \/ new_row[s] \notin Range(file.rows))

BothAppended ==
    \A s \in Sessions : nApp[s] = 1 /\ pc[s] = "idle" /\ msg[s] = "success"

\* C10: when each of the two sessions has made one append and both reported
\* success, either both read the file before either wrote it, and the file is
\* what one of them read plus that session's row alone (the other row is
\* lost), or one read after the other wrote, and the file holds both rows.
C10_LastWriterWins ==
    BothAppended =>
        IF base[1] = base[2]
        THEN \E s \in Sessions : file.rows = Append(base[s], new_row[s])
        ELSE \E s, t \in Sessions :
                /\ s # t
                /\ base[t] = Append(base[s], new_row[s])
                /\ file.rows = Append(Append(base[s], new_row[s]), new_row[t])

\* C10 witness: both appends reported success and only one of the two
\* different new rows is in the file.
C10_Witness ==
    /\ BothAppended
    /\ base[1] = base[2]
    /\ new_row[1] # new_row[2]
    /\ Len(file.rows) = Len(base[1]) + 1
-----------------------------------------------------------------------------
(* SpecView: the script runs of one session over a loaded Dataset *)

ViewInit ==
    /\ df \in Datasets
    /\ WORDCLOUD_OK \in BOOLEAN
    /\ widgets = IF AgeRaises(df) THEN NoWidgets ELSE DefaultWidgets(df)
    /\ out = IF AgeRaises(df) THEN Raised ELSE Script(df, widgets, WORDCLOUD_OK)

\* a widget change: the new values w, and the script runs again
Interact(w) ==
    /\ w # widgets
    /\ widgets' = w
    /\ out' = Script(df, w, WORDCLOUD_OK)
    /\ UNCHANGED <<df, WORDCLOUD_OK, notView>>

SetAge ==
    /\ out.status = "exported"
    /\ \E lo, hi \in age_min(df)..age_max(df) :
        lo <= hi /\ Interact([widgets EXCEPT !.f_age = <<lo, hi>>])

SetSexe ==
    /\ out.status = "exported"
    /\ \E f \in SUBSET Options(df, "Sexe") : Interact([widgets EXCEPT !.f_sexe = f])

SetDiplome ==
    /\ out.status = "exported"
    /\ \E f \in SUBSET Options(df, "Diplome") : Interact([widgets EXCEPT !.f_diplome = f])

SetDomaine ==
    /\ out.status = "exported"
    /\ \E f \in SUBSET Options(df, "Q1_Domaine") : Interact([widgets EXCEPT !.f_domaine = f])

SetStage ==
    /\ out.status = "exported"
    /\ \E f \in SUBSET Options(df, "Q2_Stage") : Interact([widgets EXCEPT !.f_stage = f])

SetMobilite ==
    /\ out.status = "exported"
    /\ \E f \in SUBSET Options(df, "Q7_Mobilite") : Interact([widgets EXCEPT !.f_mobilite = f])

SetLinkedin ==
    /\ out.status = "exported"
    /\ \E f \in SUBSET Options(df, "Q10_LinkedIn") : Interact([widgets EXCEPT !.f_linkedin = f])

ViewNext ==
    \/ SetAge
    \/ SetSexe
    \/ SetDiplome
    \/ SetDomaine
    \/ SetStage
    \/ SetMobilite
    \/ SetLinkedin

InitView == ViewInit /\ SessIdle /\ KwIdle

SpecView == InitView /\ [][ViewNext]_vars

(* Claims checked under SpecView *)

FilterCols ==
    {"Sexe", "Diplome", "Q1_Domaine", "Q2_Stage", "Q7_Mobilite", "Q10_LinkedIn"}

\* the allowed-value set the Filter State holds for column c
Allowed(c) ==
    CASE c = "Sexe" -> widgets.f_sexe
      [] c = "Diplome" -> widgets.f_diplome
      [] c = "Q1_Domaine" -> widgets.f_domaine
      [] c = "Q2_Stage" -> widgets.f_stage
      [] c = "Q7_Mobilite" -> widgets.f_mobilite
      [] c = "Q10_LinkedIn" -> widgets.f_linkedin

AgeInRange(r) == r.Age \in widgets.f_age[1]..widgets.f_age[2]

\* the rows of df the claimed Filtered View holds, by position
Kept ==
    {i \in DOMAIN df :
        /\ AgeInRange(df[i])
        /\ \A c \in FilterCols : Allowed(c) # {} => df[i][c] \in Allowed(c)}

\* the k-th smallest member of the set S of numbers
Nth(S, k) == CHOOSE i \in S : Cardinality({j \in S : j < i}) = k - 1

\* C1: the Filtered View is the subsequence of the Dataset made of exactly the
\* rows whose age lies in [min, max], both ends included, and whose value in
\* every column with a non-empty allowed set is in that set, in Dataset order.
C1_FilteredViewIsTheMatchingSubsequence ==
    out.status = "exported" =>
        /\ Len(out.dff) = Cardinality(Kept)
        /\ \A k \in 1..Len(out.dff) : out.dff[k] = df[Nth(Kept, k)]

\* C1 witness: a range ending on a row's age and a non-empty allowed set keep
\* some rows and drop others.
C1_Witness ==
    /\ out.status = "exported"
    /\ widgets.f_sexe # {}
    /\ \E i \in DOMAIN out.dff : out.dff[i].Age = widgets.f_age[2]
    /\ \E i \in DOMAIN df : df[i].Age # NaN /\ ~AgeInRange(df[i])
    /\ \E i \in DOMAIN df : df[i].Sexe \notin widgets.f_sexe
    /\ out.dff # <<>>

\* the view with no predicate on column c at all
ViewWithout(c) ==
    SelectSeq(df, LAMBDA r :
        /\ AgeInRange(r)
        /\ \A d \in FilterCols \ {c} : Allowed(d) = {} \/ r[d] \in Allowed(d))

\* C2: for every categorical filter column whose allowed set is empty, the
\* Filtered View is the view computed with no predicate on that column,
\* whatever the other predicates are.
C2_EmptySetIsNoFilter ==
    out.status = "exported" =>
        \A c \in FilterCols : Allowed(c) = {} => out.dff = ViewWithout(c)

\* C2 witness: one allowed set is empty while another one and the age range
\* restrict the view, and rows remain.
C2_Witness ==
    /\ out.status = "exported"
    /\ widgets.f_sexe = {}
    /\ widgets.f_stage # {}
    /\ out.dff # <<>>
    /\ Len(out.dff) < Len(df)

Sections == DOMAIN Tabs(<<>>, <<>>, FALSE)

\* what counts as a section's "no data" indicator (st.info)
NoDataIndicators == {"no_data", "too_little_text"}

\* C5 (as claimed): on an empty Filtered View the count is 0, the mean salary
\* and the four rates are 0, the run reaches the export, and every chart
\* section (the word cloud too, where the wordcloud module is installed) shows
\* its "no data" indicator.
C5_EmptyViewShowsNoDataEverywhere ==
    (out.status = "exported" /\ out.dff = <<>>) =>
        /\ out.kpi.nb_rep = 0
        /\ out.kpi.avg_salary = Zero
        /\ \A r \in {"stage_rate", "mob_rate", "entre_rate", "li_rate"} : out.kpi[r] = Zero
        /\ \A x \in Sections \ {"wordcloud"} : out.tabs[x] \in NoDataIndicators
        /\ (WORDCLOUD_OK => out.tabs.wordcloud \in NoDataIndicators)

RECURSIVE SumCounts(_)
SumCounts(q) == IF q = <<>> THEN 0 ELSE q[1].count + SumCounts(Tail(q))

CountedCols == {"Diplome", "Sexe", "Q1_Domaine"}

\* valueCounts(view, c), as the script computed it where it did
CountsOf(c) ==
    CASE c = "Diplome" -> out.vc
      [] c = "Sexe" -> out.vsex
      [] OTHER -> value_counts(Column(out.dff, c))

Least(a, b) == IF a < b THEN a ELSE b

IsPrefixOfLen(t, q, n) == Len(t) = n /\ \A k \in 1..n : t[k] = q[k]

\* C6 (as claimed): the counts of valueCounts sum to count(view), missing
\* values or not, and topN is the prefix of valueCounts of length
\* min(n, number of distinct values).
C6_CountsSumToViewSize ==
    out.status = "exported" =>
        \A c \in CountedCols :
            /\ SumCounts(CountsOf(c)) = out.kpi.nb_rep
            /\ \A n \in (0..MaxN) \cup {TopN} :
                IsPrefixOfLen(topN(out.dff, c, n), CountsOf(c),
                              Least(n, Cardinality(Options(out.dff, c))))

\* C6 (amended): the counts of valueCounts sum to the number of rows of the view
\* whose value in the column is present, and topN is the prefix of valueCounts
\* of length min(n, number of distinct present values); the script's top 10 is
\* that prefix for n = 10.
C6_CountsSumToPresentRows ==
    out.status = "exported" =>
        /\ \A c \in CountedCols :
            /\ SumCounts(CountsOf(c))
                 = Cardinality({i \in DOMAIN out.dff : out.dff[i][c] # NA})
            /\ \A n \in (0..MaxN) \cup {TopN} :
                IsPrefixOfLen(topN(out.dff, c, n), CountsOf(c),
                              Least(n, Cardinality(Options(out.dff, c))))
        /\ IsPrefixOfLen(out.dom, CountsOf("Q1_Domaine"),
                         Least(TopN, Cardinality(Options(out.dff, "Q1_Domaine"))))

\* C6 witness: a view with a missing Diplome, so that the counts sum to less
\* than the rows, and with two distinct Sexe values, so that topN cuts.
C6_Witness ==
    /\ out.status = "exported"
    /\ \E i \in DOMAIN out.dff : out.dff[i].Diplome = NA
    /\ SumCounts(out.vc) < out.kpi.nb_rep
    /\ Len(out.vsex) = 2
    /\ Len(topN(out.dff, "Sexe", 1)) = 1

RateCols ==
    [ stage_rate |-> "Q2_Stage", mob_rate |-> "Q7_Mobilite",
      entre_rate |-> "Q9_Entreprenariat", li_rate |-> "Q10_LinkedIn" ]

NumWhere(c, v) == Cardinality({i \in DOMAIN out.dff : out.dff[i][c] = v})
NumPresent(c) == Cardinality({i \in DOMAIN out.dff : out.dff[i][c] # NA})

\* C7 (as claimed): on a non-empty view each rate is 100 times the number of
\* "Oui" rows divided by the number of rows whose value is present.
C7_RateOverPresentRows ==
    (out.status = "exported" /\ out.dff # <<>>) =>
        \A r \in DOMAIN RateCols :
            NumPresent(RateCols[r]) > 0 =>
                out.kpi[r].num * NumPresent(RateCols[r])
                    = 100 * NumWhere(RateCols[r], Oui) * out.kpi[r].den

-----------------------------------------------------------------------------
(* SpecKw: extract_keywords applied to every small column *)

KwChars == {"s", "e", "S", "!", "_", " "}

RECURSIVE TextsOfLen(_)
TextsOfLen(n) ==
    IF n = 0 THEN {<<>>}
    ELSE {Append(t, c) : t \in TextsOfLen(n - 1), c \in KwChars}

\* the non-empty cells; the empty cell is NA
KwTexts == UNION {TextsOfLen(n) : n \in 1..MaxTextLen}

RECURSIVE TotalLen(_)
TotalLen(col) == IF col = <<>> THEN 0 ELSE Len(Head(col)) + TotalLen(Tail(col))

KwInit == series = <<>> /\ freq = extract_keywords(<<>>, MinLength)

\* one more cell in the column, and line 286 again
AddCell ==
    /\ Len(series) < MaxSeries
    /\ \E v \in KwTexts \cup {NA} :
        /\ TotalLen(series) + Len(v) <= MaxChars
        /\ series' = Append(series, v)
        /\ freq' = extract_keywords(series', MinLength)
    /\ UNCHANGED notKw

KwNext == AddCell

InitKw == KwInit /\ SessIdle /\ ViewIdle

SpecKw == InitKw /\ [][KwNext]_vars

IsPunctChar(c) == c \in {"!", "_", "'", "rsquo"}

\* the text with its letters lowercased and its punctuation replaced by spaces
Plain(t) == [i \in DOMAIN t |-> IF IsPunctChar(t[i]) THEN " " ELSE LowerChar(t[i])]

\* C8 (as claimed): a column and the column with every letter lowercased and every
\* punctuation character taken out give the same counts; every key is lowercase,
\* at least MinLength long and no stop word; missing cells add nothing.
C8_KeywordsIgnoreCaseAndPunctuation ==
    /\ freq = extract_keywords([i \in DOMAIN series |-> Plain(series[i])], MinLength)
    /\ freq = extract_keywords(dropna(series), MinLength)
    /\ \A w \in DOMAIN freq :
        /\ lower(w) = w
        /\ Len(w) >= MinLength
        /\ w \notin stop_words
    /\ ((\A i \in DOMAIN series : series[i] = NA) => freq = EmptyCounter)
====
